---- MODULE Spec2Model ----
(***************************************************************************)
(* fluent-ergonomics: FluentErgo, a store of per-language Fluent bundles   *)
(* behind Arc<RwLock<HashMap<..>>>, filled by add_from_text/add_from_file  *)
(* and searched by tr along the handle's priority list (src/src/lib.rs).   *)
(*                                                                         *)
(* Strings are sequences of one-token strings.  A parsed resource is the   *)
(* sequence of its body entries (messages and Junk); a text is modelled by *)
(* the body the Fluent parser produces for it.                             *)
(***************************************************************************)
EXTENDS Integers, Sequences, FiniteSets, TLC

\* ------------------------------------------------------------------ bounds
\* Upper bound on the number of resources held by the store when a new add
\* call may still begin.
MaxResources == 2

\* ------------------------------------------------------------- value sets
Procs == {"p1", "p2"}
Langs == {"eo", "en"}
MsgIds == {"m1", "m2"}

FSI == "U+2068"
PDI == "U+2069"

None == [some |-> FALSE]
Some(x) == [some |-> TRUE, v |-> x]

\* Pattern elements of a message value.
TextEl(c) == [t |-> "text", c |-> c]
VarEl == [t |-> "var", name |-> "x"]
RefEl(id) == [t |-> "ref", id |-> id]
StrEl(s) == [t |-> "str", s |-> s]

\* Resource body entries: a message (value is None for a message that has
\* attributes only) or a Junk entry left by a syntax error.
Msg(id, pat) == [kind |-> "message", id |-> id, value |-> Some(pat)]
AttrMsg(id) == [kind |-> "message", id |-> id, value |-> None]
Junk == [kind |-> "junk"]

\* tr's args: Option<&FluentArgs>.
NoArgs == None
ArgsX(s) == Some([x \in {"x"} |-> s])
ArgSet == {NoArgs, ArgsX(<<"c">>), ArgsX(<<FSI, "c">>)}

\* The texts offered to add_from_text, each given as its parsed body.
TextA == <<Msg("m1", <<TextEl("a")>>)>>
TextVar == <<Msg("m1", <<VarEl, TextEl("b")>>)>>
TextRef == <<Msg("m2", <<TextEl("n"), RefEl("m1")>>)>>
TextAttr == <<AttrMsg("m1")>>
TextTwo == <<Msg("m1", <<TextEl("b")>>), Msg("m2", <<TextEl("a")>>)>>
TextDup == <<Msg("m2", <<TextEl("a")>>), Msg("m2", <<TextEl("b")>>)>>
TextJunk == <<Msg("m2", <<TextEl("a")>>), Junk>>
Texts == {TextA, TextVar, TextRef, TextAttr, TextTwo, TextDup, TextJunk}
TextsConc == {TextA, TextTwo, TextJunk}

\* The files offered to add_from_file.
Files == {[open |-> FALSE, read |-> FALSE, utf8 |-> FALSE, text |-> <<>>],
          [open |-> TRUE, read |-> FALSE, utf8 |-> FALSE, text |-> <<>>],
          [open |-> TRUE, read |-> TRUE, utf8 |-> FALSE, text |-> <<>>],
          [open |-> TRUE, read |-> TRUE, utf8 |-> TRUE, text |-> TextA],
          [open |-> TRUE, read |-> TRUE, utf8 |-> TRUE, text |-> TextJunk]}

\* Priority lists a handle may be constructed with.
PriorityLists == {<<>>} \cup {<<a>> : a \in Langs} \cup {<<a, b>> : a, b \in Langs}

Range(s) == {s[i] : i \in DOMAIN s}

\* --------------------------------------------------- the Fluent engine
\* The operators of this section model the functions of the fluent crate
\* that lib.rs calls (FluentResource::try_new, FluentBundle::new,
\* add_resource, get_message, format_pattern), as that crate defines them
\* for the API lib.rs is written against: add_resource keeps the first
\* registration of an id, reports a later one as an Overriding error, and
\* pushes the resource in either case; format_pattern wraps the placeables
\* of a pattern of several elements in U+2068 .. U+2069.
\* FluentResource::try_new: the parsed resource, with the parser's errors
\* when the body holds Junk.
TryNew(text) ==
  [ok |-> \A i \in DOMAIN text : text[i].kind # "junk", res |-> text]

\* FluentBundle::new: no resources, no entries.
EmptyMap == [k \in {} |-> 0]

FluentBundleNew == [resources |-> <<>>, entries |-> EmptyMap]

\* HashMap::insert on a map modelled as a function.
MapInsert(map, k, v) == [x \in DOMAIN map \cup {k} |-> IF x = k THEN v ELSE map[x]]

HasEntry(bundle, id) == id \in DOMAIN bundle.entries

\* Mutant of RegisterEntry: an id that is taken is overwritten, without an
\* error.
RegisterEntryOverriding(bundle, res, pos) ==
  LET e == res[pos]
      res_pos == Len(bundle.resources) + 1
  IN IF e.kind = "junk" THEN [bundle |-> bundle, errors |-> 0]
     ELSE [bundle |-> [bundle EXCEPT !.entries =
                         MapInsert(@, e.id, [res_pos |-> res_pos, entry_pos |-> pos])],
           errors |-> 0]

\* One iteration of the loop of FluentBundle::add_resource over the body of
\* res: entry number pos is registered under its id when the id is free, is
\* reported as an Overriding error when the id is taken, and is skipped when
\* it is Junk.  res_pos is the position the resource will get.
RegisterEntry(bundle, res, pos) ==
  LET e == res[pos]
      res_pos == Len(bundle.resources) + 1
  IN IF e.kind = "junk" THEN [bundle |-> bundle, errors |-> 0]
     ELSE IF HasEntry(bundle, e.id) THEN [bundle |-> bundle, errors |-> 1]
     ELSE [bundle |-> [bundle EXCEPT !.entries =
                         MapInsert(@, e.id, [res_pos |-> res_pos, entry_pos |-> pos])],
           errors |-> 0]

\* The end of FluentBundle::add_resource: the resource is pushed whether or
\* not errors were collected.
PushResource(bundle, res) == [bundle EXCEPT !.resources = Append(@, res)]

\* FluentBundle::get_message: the message registered under id, if any.
get_message(bundle, id) ==
  IF HasEntry(bundle, id)
  THEN LET p == bundle.entries[id]
       IN IF p.res_pos \in DOMAIN bundle.resources
          THEN Some(bundle.resources[p.res_pos][p.entry_pos])
          ELSE None
  ELSE None

RECURSIVE ResolvePattern(_, _, _, _)
RECURSIVE ResolveElems(_, _, _, _, _)

\* A placeable of a pattern: a variable is looked up in args, a message
\* reference is resolved through the bundle unless it is unknown, has no
\* value or is already being resolved; failures give "{..}" and one error.
ResolvePlaceable(bundle, el, args, travelled) ==
  IF el.t = "str" THEN [s |-> el.s, e |-> 0]
  ELSE IF el.t = "var"
  THEN IF args.some /\ el.name \in DOMAIN args.v
       THEN [s |-> args.v[el.name], e |-> 0]
       ELSE [s |-> <<"{", "$", el.name, "}">>, e |-> 1]
  ELSE LET m == get_message(bundle, el.id)
       IN IF m.some /\ m.v.value.some /\ el.id \notin travelled
          THEN ResolvePattern(bundle, m.v.value.v, args, travelled \cup {el.id})
          ELSE [s |-> <<"{", el.id, "}">>, e |-> 1]

\* The elements of a pattern of more than one element, from number i on:
\* text is copied, a placeable is wrapped in the isolation marks.
ResolveElems(bundle, pat, i, args, travelled) ==
  IF i > Len(pat) THEN [s |-> <<>>, e |-> 0]
  ELSE LET rest == ResolveElems(bundle, pat, i + 1, args, travelled)
           el == pat[i]
       IN IF el.t = "text"
          THEN [s |-> <<el.c>> \o rest.s, e |-> rest.e]
          ELSE LET r == ResolvePlaceable(bundle, el, args, travelled)
               IN [s |-> <<FSI>> \o r.s \o <<PDI>> \o rest.s, e |-> r.e + rest.e]

ResolvePattern(bundle, pat, args, travelled) ==
  IF Len(pat) = 1
  THEN IF pat[1].t = "text" THEN [s |-> <<pat[1].c>>, e |-> 0]
       ELSE ResolvePlaceable(bundle, pat[1], args, travelled)
  ELSE ResolveElems(bundle, pat, 1, args, travelled)

\* FluentBundle::format_pattern: the text and the number of errors pushed.
format_pattern(bundle, id, pat, args) == ResolvePattern(bundle, pat, args, {id})

\* ------------------------------------------------------------- FluentErgo
VARIABLES
  bundles,    \* the shared HashMap: language -> bundle, for the languages present
  languages,  \* handle -> its priority list, for the handles that exist
  writers,    \* processes holding the RwLock's write guard
  readers,    \* processes holding a read guard
  pc,         \* process -> position in its current call
  frame,      \* process -> locals of its current call
  ret,        \* process -> what its last call returned
  added       \* history: the adds that returned Ok, as [lang, res]

vars == <<bundles, languages, writers, readers, pc, frame, ret, added>>

NoFrame == [op |-> "none"]
NoRet == [op |-> "none", kind |-> "none"]

\* FluentErgo::new for the first handle, with any priority list.
Init ==
  /\ bundles = EmptyMap
  /\ languages \in {[h \in {"p1"} |-> L] : L \in PriorityLists}
  /\ writers = {}
  /\ readers = {}
  /\ pc = [p \in Procs |-> "idle"]
  /\ frame = [p \in Procs |-> NoFrame]
  /\ ret = [p \in Procs |-> NoRet]
  /\ added = {}

RECURSIVE SumResources(_, _)
SumResources(b, S) ==
  IF S = {} THEN 0
  ELSE LET l == CHOOSE x \in S : TRUE
       IN Len(b[l].resources) + SumResources(b, S \ {l})

TotalResources(b) == SumResources(b, DOMAIN b)

CanCall(p) == p \in DOMAIN languages /\ pc[p] = "idle"

\* Mutant of Retain: the condition joined with || keeps every character.
RECURSIVE RetainOr(_)
RetainOr(s) ==
  IF s = <<>> THEN <<>>
  ELSE IF Head(s) # FSI \/ Head(s) # PDI THEN <<Head(s)>> \o RetainOr(Tail(s))
  ELSE RetainOr(Tail(s))

\* String::retain(|v| v != U+2068 && v != U+2069), character by character.
RECURSIVE Retain(_)
Retain(s) ==
  IF s = <<>> THEN <<>>
  ELSE IF Head(s) # FSI /\ Head(s) # PDI THEN <<Head(s)>> \o Retain(Tail(s))
  ELSE Retain(Tail(s))

\* Mutant of tr_: a missing message or value gives an empty text.
tr_Empty(bundle, msgid, args) ==
  LET msg == get_message(bundle, msgid)
      pattern == IF msg.some THEN msg.v.value ELSE None
  IN IF pattern.some
     THEN Some(Retain(format_pattern(bundle, msgid, pattern.v, args).s))
     ELSE Some(<<>>)

\* Mutant of tr_: a render that pushed errors gives None.
tr_FailOnErrors(bundle, msgid, args) ==
  LET msg == get_message(bundle, msgid)
      pattern == IF msg.some THEN msg.v.value ELSE None
  IN IF pattern.some /\ format_pattern(bundle, msgid, pattern.v, args).e = 0
     THEN Some(Retain(format_pattern(bundle, msgid, pattern.v, args).s))
     ELSE None

\* FluentErgo::tr_: None when the bundle has no message msgid or the message
\* has no value, else the formatted pattern without the isolation marks.
tr_(bundle, msgid, args) ==
  LET msg == get_message(bundle, msgid)
      pattern == IF msg.some THEN msg.v.value ELSE None
  IN IF pattern.some
     THEN Some(Retain(format_pattern(bundle, msgid, pattern.v, args).s))
     ELSE None

\* Mutant of TrVisit: a language without a bundle is served by some bundle
\* of the store.
TrVisitAny(b, lang, msgid, args) ==
  IF lang \in DOMAIN b THEN tr_(b[lang], msgid, args)
  ELSE IF DOMAIN b # {} THEN tr_(b[CHOOSE l \in DOMAIN b : TRUE], msgid, args)
  ELSE None

\* The closure tr maps over the priority list: bundles.get(lang)? and tr_.
TrVisit(b, lang, msgid, args) ==
  IF lang \in DOMAIN b THEN tr_(b[lang], msgid, args) ELSE None

\* self.languages.iter(): the languages tr searches, in order.
LanguagesIter(h) == languages[h]

\* The match that ends tr.
TrResult(result, msgid) ==
  IF result.some THEN [kind |-> "Ok", text |-> result.v]
  ELSE [kind |-> "NoMatchingMessage", id |-> msgid]

\* The locals of tr once the read guard is held.
TrFrame(msgid, args) ==
  [op |-> "tr", msgid |-> msgid, args |-> args,
   i |-> 1, result |-> None, at |-> 0, state |-> "Searching"]

\* Mutant of TrStep: the chain is drained and the last Some is kept.
TrStepLast(f, langs, b) ==
  IF f.i > Len(langs)
  THEN [f EXCEPT !.state = IF f.result.some THEN "Found" ELSE "Exhausted"]
  ELSE LET v == TrVisit(b, langs[f.i], f.msgid, f.args)
       IN IF v.some THEN [f EXCEPT !.result = v, !.at = f.i, !.i = f.i + 1]
          ELSE [f EXCEPT !.i = f.i + 1]

\* next() pulls one language through the chain map/filter/map: a Some ends
\* the search, a None moves on; past the end of the list the search is
\* exhausted.
TrStep(f, langs, b) ==
  IF f.i > Len(langs) THEN [f EXCEPT !.state = "Exhausted"]
  ELSE LET v == TrVisit(b, langs[f.i], f.msgid, f.args)
       IN IF v.some THEN [f EXCEPT !.result = v, !.at = f.i, !.state = "Found"]
          ELSE [f EXCEPT !.i = f.i + 1]

RECURSIVE TrRun(_, _, _)
TrRun(f, langs, b) ==
  IF f.state # "Searching" THEN f ELSE TrRun(TrStep(f, langs, b), langs, b)

\* FluentErgo::tr as a function of the store it reads under its read guard.
tr(h, b, msgid, args) ==
  TrResult(TrRun(TrFrame(msgid, args), LanguagesIter(h), b).result, msgid)

\* ---------------------------------------------------------------- actions
Bundle(b, lang) == IF lang \in DOMAIN b THEN Some(b[lang]) ELSE None

\* Mutant of add_from_text: the entry of the language is created before the
\* text is parsed.
add_from_text_eager(p, lang, text) ==
  /\ CanCall(p)
  /\ TotalResources(bundles) < MaxResources
  /\ LET r == TryNew(text)
     IN IF r.ok
        THEN /\ pc' = [pc EXCEPT ![p] = "add_lock"]
             /\ frame' = [frame EXCEPT ![p] = [op |-> "add", lang |-> lang, res |-> r.res]]
             /\ ret' = [ret EXCEPT ![p] = NoRet]
             /\ bundles' = bundles
        ELSE /\ pc' = pc
             /\ frame' = frame
             /\ ret' = [ret EXCEPT ![p] =
                        [op |-> "add", kind |-> "FluentParserError", lang |-> lang, res |-> r.res]]
             /\ bundles' = IF lang \in DOMAIN bundles THEN bundles
                           ELSE MapInsert(bundles, lang, FluentBundleNew)
  /\ UNCHANGED <<languages, writers, readers, added>>

\* add_from_text up to the write lock: the text is parsed, and a parser
\* error returns at once (the ? of line 150 drops the partial resource).
add_from_text(p, lang, text) ==
  /\ CanCall(p)
  /\ TotalResources(bundles) < MaxResources
  /\ LET r == TryNew(text)
     IN IF r.ok
        THEN /\ pc' = [pc EXCEPT ![p] = "add_lock"]
             /\ frame' = [frame EXCEPT ![p] = [op |-> "add", lang |-> lang, res |-> r.res]]
             /\ ret' = [ret EXCEPT ![p] = NoRet]
        ELSE /\ pc' = pc
             /\ frame' = frame
             /\ ret' = [ret EXCEPT ![p] =
                        [op |-> "add", kind |-> "FluentParserError", lang |-> lang, res |-> r.res]]
  /\ UNCHANGED <<bundles, languages, writers, readers, added>>

\* add_from_file: open, read_to_end and from_utf8 may each fail; otherwise
\* the decoded text goes to add_from_text.
add_from_file(p, lang, file) ==
  IF ~file.open \/ ~file.read
  THEN /\ CanCall(p)
       /\ ret' = [ret EXCEPT ![p] = [op |-> "add", kind |-> "IOError", lang |-> lang]]
       /\ UNCHANGED <<bundles, languages, writers, readers, pc, frame, added>>
  ELSE IF ~file.utf8
  THEN /\ CanCall(p)
       /\ ret' = [ret EXCEPT ![p] = [op |-> "add", kind |-> "FileEncodingError", lang |-> lang]]
       /\ UNCHANGED <<bundles, languages, writers, readers, pc, frame, added>>
  ELSE add_from_text(p, lang, file.text)

\* Mutant of EntryBundle: a new bundle whether or not the entry is occupied.
EntryBundleFresh(b, lang) == FluentBundleNew

\* The bundle the resource is added to: the occupied entry's bundle, or a
\* new bundle for a vacant entry.
EntryBundle(b, lang) == IF lang \in DOMAIN b THEN b[lang] ELSE FluentBundleNew

\* Mutant of WriteFree: the write guard is given while a writer holds it.
WriteFreeIgnoringWriters == readers = {}

\* Mutant of WriteFree: the write guard is given while readers hold theirs.
WriteFreeIgnoringReaders == writers = {}

\* self.bundles.write(): exclusive access.
WriteFree == writers = {} /\ readers = {}

\* Lines 151-159: the write guard is taken and the entry is matched.
add_write(p) ==
  /\ pc[p] = "add_lock"
  /\ WriteFree
  /\ writers' = writers \cup {p}
  /\ pc' = [pc EXCEPT ![p] = "add_resource"]
  /\ frame' = [frame EXCEPT ![p] =
       [op |-> "add", lang |-> frame[p].lang, res |-> frame[p].res,
        occupied |-> frame[p].lang \in DOMAIN bundles,
        bundle |-> FluentBundleNew,
        pos |-> 1, errors |-> 0,
        before |-> Bundle(bundles, frame[p].lang)]]
  /\ UNCHANGED <<bundles, languages, readers, ret, added>>

\* The bundle add_resource works on: e.get_mut() into the map for an
\* occupied entry, the local new bundle for a vacant one.
AddTarget(b, f) == IF f.occupied THEN EntryBundle(b, f.lang) ELSE f.bundle

\* bundle.add_resource(res), one body entry: an occupied entry's bundle is
\* changed in place in the map, a new bundle is still local.
add_resource_entry(p) ==
  /\ pc[p] = "add_resource"
  /\ frame[p].pos <= Len(frame[p].res)
  /\ LET f == frame[p]
         r == RegisterEntry(AddTarget(bundles, f), f.res, f.pos)
     IN /\ frame' = [frame EXCEPT ![p].bundle = r.bundle,
                                  ![p].pos = f.pos + 1,
                                  ![p].errors = f.errors + r.errors]
        /\ bundles' = IF f.occupied THEN [bundles EXCEPT ![f.lang] = r.bundle]
                      ELSE bundles
  /\ UNCHANGED <<languages, writers, readers, pc, ret, added>>

\* Mutant of StoreAfterAdd: the new bundle is never inserted.
StoreAfterAddNoInsert(b, lang, occupied, bundle, errors) ==
  IF occupied THEN [b EXCEPT ![lang] = bundle] ELSE b

\* Mutant of StoreAfterAdd: the new bundle is inserted whether or not
\* add_resource succeeded.
StoreAfterAddAlways(b, lang, occupied, bundle, errors) ==
  IF occupied THEN [b EXCEPT ![lang] = bundle] ELSE MapInsert(b, lang, bundle)

\* What the match of lines 153-164 leaves in the map once add_resource has
\* returned: the occupied bundle as add_resource left it; a new bundle is
\* inserted only when add_resource succeeded.
StoreAfterAdd(b, lang, occupied, bundle, errors) ==
  IF occupied THEN [b EXCEPT ![lang] = bundle]
  ELSE IF errors = 0 THEN MapInsert(b, lang, bundle)
  ELSE b

\* Mutant of add_return: the write guard is kept when add_resource failed.
add_return_leak(p) ==
  /\ pc[p] = "add_resource"
  /\ frame[p].pos > Len(frame[p].res)
  /\ LET f == frame[p]
         done == PushResource(AddTarget(bundles, f), f.res)
     IN /\ bundles' = StoreAfterAdd(bundles, f.lang, f.occupied, done, f.errors)
        /\ ret' = [ret EXCEPT ![p] =
                   [op |-> "add", kind |-> IF f.errors = 0 THEN "Ok" ELSE "FluentError",
                    lang |-> f.lang, res |-> f.res, before |-> f.before]]
        /\ added' = IF f.errors = 0 THEN added \cup {[lang |-> f.lang, res |-> f.res]}
                    ELSE added
        /\ writers' = IF f.errors = 0 THEN writers \ {p} ELSE writers
  /\ pc' = [pc EXCEPT ![p] = "idle"]
  /\ frame' = [frame EXCEPT ![p] = NoFrame]
  /\ UNCHANGED <<languages, readers>>

\* The end of add_resource and of add_from_text: the resource is pushed,
\* the match completes, the guard is dropped, the call returns.
add_return(p) ==
  /\ pc[p] = "add_resource"
  /\ frame[p].pos > Len(frame[p].res)
  /\ LET f == frame[p]
         done == PushResource(AddTarget(bundles, f), f.res)
     IN /\ bundles' = StoreAfterAdd(bundles, f.lang, f.occupied, done, f.errors)
        /\ ret' = [ret EXCEPT ![p] =
                   [op |-> "add", kind |-> IF f.errors = 0 THEN "Ok" ELSE "FluentError",
                    lang |-> f.lang, res |-> f.res, before |-> f.before]]
        /\ added' = IF f.errors = 0 THEN added \cup {[lang |-> f.lang, res |-> f.res]}
                    ELSE added
  /\ writers' = writers \ {p}
  /\ pc' = [pc EXCEPT ![p] = "idle"]
  /\ frame' = [frame EXCEPT ![p] = NoFrame]
  /\ UNCHANGED <<languages, readers>>

\* tr is called.
tr_call(p, msgid, args) ==
  /\ CanCall(p)
  /\ pc' = [pc EXCEPT ![p] = "tr_lock"]
  /\ frame' = [frame EXCEPT ![p] = [op |-> "tr", msgid |-> msgid, args |-> args]]
  /\ ret' = [ret EXCEPT ![p] = NoRet]
  /\ UNCHANGED <<bundles, languages, writers, readers, added>>

\* self.bundles.read(): shared access, excluded by a writer.
ReadFree == writers = {}

tr_read(p) ==
  /\ pc[p] = "tr_lock"
  /\ ReadFree
  /\ readers' = readers \cup {p}
  /\ pc' = [pc EXCEPT ![p] = "tr_iter"]
  /\ frame' = [frame EXCEPT ![p] = TrFrame(frame[p].msgid, frame[p].args)]
  /\ UNCHANGED <<bundles, languages, writers, ret, added>>

\* One pull of the iterator chain.
tr_next(p) ==
  /\ pc[p] = "tr_iter"
  /\ LET f == TrStep(frame[p], LanguagesIter(p), bundles)
     IN /\ frame' = [frame EXCEPT ![p] = f]
        /\ pc' = [pc EXCEPT ![p] = IF f.state = "Searching" THEN "tr_iter" ELSE "tr_done"]
  /\ UNCHANGED <<bundles, languages, writers, readers, ret, added>>

\* The match on the result; the read guard is dropped as tr returns.
tr_return(p) ==
  /\ pc[p] = "tr_done"
  /\ LET f == frame[p]
         r == TrResult(f.result, f.msgid)
     IN ret' = [ret EXCEPT ![p] =
                  [op |-> "tr", kind |-> r.kind, out |-> r,
                   msgid |-> f.msgid, args |-> f.args, at |-> f.at, i |-> f.i]]
  /\ readers' = readers \ {p}
  /\ pc' = [pc EXCEPT ![p] = "idle"]
  /\ frame' = [frame EXCEPT ![p] = NoFrame]
  /\ UNCHANGED <<bundles, languages, writers, added>>

\* Mutant of clone: the new handle is built as Default::default(), with an
\* empty priority list.
clone_default(p, q) ==
  /\ p \in DOMAIN languages
  /\ q \notin DOMAIN languages
  /\ languages' = MapInsert(languages, q, <<>>)
  /\ UNCHANGED <<bundles, writers, readers, pc, frame, ret, added>>

\* #[derive(Clone)]: the new handle copies the priority list and shares the
\* store.
clone(p, q) ==
  /\ p \in DOMAIN languages
  /\ q \notin DOMAIN languages
  /\ languages' = MapInsert(languages, q, languages[p])
  /\ UNCHANGED <<bundles, writers, readers, pc, frame, ret, added>>

\* One handle, used by one thread.
Next ==
  \/ \E lang \in Langs, text \in Texts : add_from_text("p1", lang, text)
  \/ \E lang \in Langs, file \in Files : add_from_file("p1", lang, file)
  \/ add_write("p1")
  \/ add_resource_entry("p1")
  \/ add_return("p1")
  \/ \E msgid \in MsgIds, args \in ArgSet : tr_call("p1", msgid, args)
  \/ tr_read("p1")
  \/ tr_next("p1")
  \/ tr_return("p1")

Spec == Init /\ [][Next]_vars

\* Clones of the handle, each used by its own thread.
NextConc ==
  \/ \E p, q \in Procs : clone(p, q)
  \/ \E p \in Procs, lang \in Langs, text \in TextsConc : add_from_text(p, lang, text)
  \/ \E p \in Procs : add_write(p)
  \/ \E p \in Procs : add_resource_entry(p)
  \/ \E p \in Procs : add_return(p)
  \/ \E p \in Procs, msgid \in MsgIds : tr_call(p, msgid, NoArgs)
  \/ \E p \in Procs : tr_read(p)
  \/ \E p \in Procs : tr_next(p)
  \/ \E p \in Procs : tr_return(p)

SpecConc == Init /\ [][NextConc]_vars

\* The threads run: a call that can take its next step takes it, and the
\* lock is fair, so a call that can take its guard again and again gets it.
Fairness ==
  \A p \in Procs :
    /\ SF_vars(add_write(p))
    /\ WF_vars(add_resource_entry(p))
    /\ WF_vars(add_return(p))
    /\ SF_vars(tr_read(p))
    /\ WF_vars(tr_next(p))
    /\ WF_vars(tr_return(p))

SpecFair == Init /\ [][NextConc]_vars /\ Fairness

\* ----------------------------------------------------------- properties
IsMark(c) == c = FSI \/ c = PDI

\* The bundle has a message id with a value pattern, something to render.
Renders(bundle, id) ==
  get_message(bundle, id).some /\ get_message(bundle, id).v.value.some

\* What the engine renders for message id of the bundle.
EngineText(bundle, id, args) ==
  format_pattern(bundle, id, get_message(bundle, id).v.value.v, args).s

\* The positions of the priority list L whose bundle exists and satisfies D.
Positions(L, b, D(_)) == {i \in DOMAIN L : L[i] \in DOMAIN b /\ D(b[L[i]])}

Min(S) == CHOOSE i \in S : \A j \in S : i <= j

\* p has returned from tr and has not begun another call.
TrReturned(p) == p \in DOMAIN languages /\ pc[p] = "idle" /\ ret[p].op = "tr"

\* C1: first match wins.  Whenever tr(m) has returned, and some language of
\* the priority list has a bundle that defines m (has a value to render for
\* it), the result is Ok with the render of the earliest such language,
\* whatever the bundles of the later languages define.
C1_FirstMatchWins ==
  \A p \in Procs : TrReturned(p) =>
    LET L == languages[p]
        m == ret[p].msgid
        Def(bundle) == Renders(bundle, m)
        D == Positions(L, bundles, Def)
    IN D # {} =>
         /\ ret[p].at = Min(D)
         /\ ret[p].out =
              [kind |-> "Ok",
               text |-> SelectSeq(EngineText(bundles[L[Min(D)]], m, ret[p].args),
                                  LAMBDA c : ~IsMark(c))]

\* C1 witness: tr returned the first language's render although the second
\* language's bundle defines the id too, with another render.
C1_Witness ==
  /\ TrReturned("p1")
  /\ Len(languages["p1"]) = 2
  /\ languages["p1"][1] # languages["p1"][2]
  /\ \A i \in {1, 2} : languages["p1"][i] \in DOMAIN bundles
                        /\ Renders(bundles[languages["p1"][i]], ret["p1"].msgid)
  /\ EngineText(bundles[languages["p1"][1]], ret["p1"].msgid, ret["p1"].args)
       # EngineText(bundles[languages["p1"][2]], ret["p1"].msgid, ret["p1"].args)
  /\ ret["p1"].kind = "Ok"

\* C2: whenever tr(m) has returned and no language of the priority list has
\* a bundle that defines m (has a value to render for it; all the more when
\* none has an entry for m), the result is NoMatchingMessage carrying m; and
\* tr returns no error of another kind.
C2_NoMatchingMessage ==
  \A p \in Procs : TrReturned(p) =>
    LET L == languages[p]
        m == ret[p].msgid
        Def(bundle) == Renders(bundle, m)
    IN /\ ret[p].kind \in {"Ok", "NoMatchingMessage"}
       /\ Positions(L, bundles, Def) = {} =>
            ret[p].out = [kind |-> "NoMatchingMessage", id |-> m]

\* C2 witness: NoMatchingMessage from a handle whose list names a language
\* with a bundle, the bundle lacking the id.
C2_Witness ==
  /\ TrReturned("p1")
  /\ ret["p1"].kind = "NoMatchingMessage"
  /\ \E i \in DOMAIN languages["p1"] :
        /\ languages["p1"][i] \in DOMAIN bundles
        /\ DOMAIN bundles[languages["p1"][i]].entries # {}
        /\ ~HasEntry(bundles[languages["p1"][i]], ret["p1"].msgid)

\* C3: whenever tr(msgid) has returned and some bundle held by the store
\* contains msgid, the result is not NoMatchingMessage.
C3_OnlyIfInNoBundle ==
  \A p \in Procs : TrReturned(p) =>
    ((\E lang \in DOMAIN bundles : HasEntry(bundles[lang], ret[p].msgid))
       => ret[p].kind # "NoMatchingMessage")

\* C4: a step that leaves the bundle of every language of the priority list
\* as it was leaves the result of tr as it was, for every id and args; and an
\* add for any language that returns Ok has its bundle in the store.
C4_OutsideLanguagesIgnored ==
  [][\A p \in DOMAIN languages :
       /\ (\A l \in Range(languages[p]) : Bundle(bundles', l) = Bundle(bundles, l))
            => \A m \in MsgIds, a \in ArgSet :
                 tr(p, bundles', m, a) = tr(p, bundles, m, a)
       /\ (ret'[p] # ret[p] /\ ret'[p].op = "add" /\ ret'[p].kind = "Ok")
            => ret'[p].lang \in DOMAIN bundles']_vars

\* C4 witness: an add for a language outside the list has returned Ok, its
\* bundle is stored and defines an id that tr does not find.
C4_Witness ==
  /\ pc["p1"] = "idle" /\ ret["p1"].op = "add" /\ ret["p1"].kind = "Ok"
  /\ ret["p1"].lang \notin Range(languages["p1"])
  /\ ret["p1"].lang \in DOMAIN bundles
  /\ \E m \in MsgIds : /\ Renders(bundles[ret["p1"].lang], m)
                        /\ tr("p1", bundles, m, NoArgs).kind = "NoMatchingMessage"

\* C5: a text returned by tr holds neither U+2068 nor U+2069, and is the
\* engine's text for the deciding bundle with exactly these removed.
C5_MarksStripped ==
  \A p \in Procs : (TrReturned(p) /\ ret[p].kind = "Ok") =>
    LET raw == EngineText(bundles[languages[p][ret[p].at]], ret[p].msgid, ret[p].args)
        text == ret[p].out.text
    IN /\ \A i \in DOMAIN text : ~IsMark(text[i])
       /\ text = SelectSeq(raw, LAMBDA c : ~IsMark(c))

\* C5 witness: the engine's text had both marks, around a nested message
\* reference whose own placeable was filled with an argument holding a mark.
C5_Witness ==
  /\ TrReturned("p1") /\ ret["p1"].kind = "Ok"
  /\ ret["p1"].msgid = "m2"
  /\ ret["p1"].args = ArgsX(<<FSI, "c">>)
  /\ LET raw == EngineText(bundles[languages["p1"][ret["p1"].at]], "m2", ret["p1"].args)
     IN /\ Len(raw) >= Len(ret["p1"].out.text) + 5
        /\ \E i \in DOMAIN raw : raw[i] = PDI
        /\ \E i \in DOMAIN raw : raw[i] = "c"

\* The message ids a resource body declares.
DeclaredIds(res) == {res[i].id : i \in {j \in DOMAIN res : res[j].kind = "message"}}

\* In this step p returns from an add call with an error of one of the kinds.
AddFails(p, kinds) ==
  ret'[p] # ret[p] /\ ret'[p].op = "add" /\ ret'[p].kind \in kinds

\* C6: a step in which an add call returns a parser, I/O or encoding error
\* leaves the store as it was: no bundle is created, and tr gives for every
\* id what it gave before.
C6_RejectedInputLeavesStore ==
  [][\A p \in DOMAIN languages :
       AddFails(p, {"FluentParserError", "IOError", "FileEncodingError"}) =>
         /\ bundles' = bundles
         /\ \A m \in MsgIds, a \in ArgSet : tr(p, bundles', m, a) = tr(p, bundles, m, a)]_vars

\* C6 witness: a text declaring m2 was rejected by the parser for a language
\* of the list, and tr(m2) does not resolve.
C6_Witness ==
  /\ pc["p1"] = "idle" /\ ret["p1"].op = "add" /\ ret["p1"].kind = "FluentParserError"
  /\ "m2" \in DeclaredIds(ret["p1"].res)
  /\ ret["p1"].lang \in Range(languages["p1"])
  /\ ret["p1"].lang \notin DOMAIN bundles
  /\ tr("p1", bundles, "m2", NoArgs).kind = "NoMatchingMessage"

\* p has returned from add_from_text with the given kind and has not begun
\* another call.
AddReturned(p, kind) ==
  p \in DOMAIN languages /\ pc[p] = "idle" /\ ret[p].op = "add" /\ ret[p].kind = kind

\* C7: whenever add_from_text has returned the engine error of add_resource,
\* the bundle of the language is what it was before the call, absent if it
\* was absent.
C7_EngineErrorLeavesBundle ==
  \A p \in Procs : AddReturned(p, "FluentError") =>
    Bundle(bundles, ret[p].lang) = ret[p].before

\* C8: whenever add_from_text has returned Ok for a language of the list
\* that had a bundle, every id the bundle had and every id of the new
\* resource has its message in the bundle, the earlier ones the message
\* they had, and tr resolves each of them that has a value.
C8_ResourcesAccumulate ==
  \A p \in Procs :
    (AddReturned(p, "Ok") /\ ret[p].before.some /\ ret[p].lang \in Range(languages[p])) =>
      LET old == ret[p].before.v
          new == bundles[ret[p].lang]
      IN /\ \A m \in DOMAIN old.entries : get_message(new, m) = get_message(old, m)
         /\ \A i \in DOMAIN ret[p].res :
              ret[p].res[i].kind = "message" =>
                get_message(new, ret[p].res[i].id) = Some(ret[p].res[i])
         /\ \A m \in DOMAIN old.entries \cup DeclaredIds(ret[p].res) :
              Renders(new, m) =>
                \A a \in ArgSet : tr(p, bundles, m, a).kind = "Ok"

\* C8 witness: the second resource of a language was added, both resources
\* declare an id with a value, and tr resolves both ids.
C8_Witness ==
  /\ AddReturned("p1", "Ok") /\ ret["p1"].before.some
  /\ ret["p1"].lang \in Range(languages["p1"])
  /\ \E m1 \in DOMAIN ret["p1"].before.v.entries, m2 \in DeclaredIds(ret["p1"].res) :
        /\ m1 # m2
        /\ Renders(bundles[ret["p1"].lang], m1) /\ Renders(bundles[ret["p1"].lang], m2)
        /\ tr("p1", bundles, m1, NoArgs).kind = "Ok"
        /\ tr("p1", bundles, m2, NoArgs).kind = "Ok"

\* A completed add is visible in the store: its language has a bundle that
\* holds the resource and gives, for every id the resource declares, the
\* message of that resource.
Visible(b, a) ==
  /\ a.lang \in DOMAIN b
  /\ a.res \in Range(b[a.lang].resources)
  /\ \A i \in DOMAIN a.res :
       a.res[i].kind = "message" => get_message(b[a.lang], a.res[i].id) = Some(a.res[i])

HoldsRead(p) == pc[p] \in {"tr_iter", "tr_done"}
HoldsWrite(p) == pc[p] = "add_resource"

\* C9: while a tr call reads the store, every add that has returned Ok is
\* visible in it.
C9_CompletedAddsVisible ==
  \A p \in Procs : HoldsRead(p) => \A a \in added : Visible(bundles, a)

\* C9 witness: a tr call of one handle reads the store after an add through
\* the other handle has returned Ok.
C9_Witness ==
  /\ HoldsRead("p2")
  /\ AddReturned("p1", "Ok")
  /\ added # {}

\* C10: no process is inside the write section of add_from_text while
\* another process is inside the read section of tr or inside the write
\* section; so the store a tr call reads does not change under it.
C10_NoTornReads ==
  \A p, q \in Procs :
    (p # q /\ HoldsWrite(p)) => ~HoldsRead(q) /\ ~HoldsWrite(q)

\* C10 witness: one process is halfway through add_resource on a bundle that
\* is in the map, while the other waits for its read guard.
C10_Witness ==
  /\ HoldsWrite("p1") /\ frame["p1"].occupied /\ frame["p1"].pos = 2
  /\ Len(frame["p1"].res) = 2
  /\ pc["p2"] = "tr_lock"

\* The resource body declares id with a value.
DeclaresValue(res, id) ==
  \E i \in DOMAIN res : res[i].kind = "message" /\ res[i].id = id /\ res[i].value.some

AddResourceReturned(p) == AddReturned(p, "Ok") \/ AddReturned(p, "FluentError")

\* The ids the resource of p's add declares that the bundle already had.
Collisions(p) ==
  IF ret[p].before.some
  THEN DOMAIN ret[p].before.v.entries \cap DeclaredIds(ret[p].res)
  ELSE {}

\* C12 as claimed: whenever a resource has been added to a bundle that
\* already had a message m, the bundle gives for m the definition of the
\* resource added last.
C12_LastAddedWins ==
  \A p \in Procs : AddResourceReturned(p) =>
    \A m \in Collisions(p) :
      \E i \in DOMAIN ret[p].res :
        /\ ret[p].res[i].kind = "message" /\ ret[p].res[i].id = m
        /\ get_message(bundles[ret[p].lang], m) = Some(ret[p].res[i])

\* C12 as amended: whenever a resource has been added to a bundle that
\* already had a message m, the add has returned the engine error and the
\* bundle gives for m the message it gave before, which is what tr_ renders.
C12_FirstAddedWins ==
  \A p \in Procs : AddResourceReturned(p) =>
    \A m \in Collisions(p) :
      LET old == get_message(ret[p].before.v, m)
          new == bundles[ret[p].lang]
      IN /\ ret[p].kind = "FluentError"
         /\ get_message(new, m) = old
         /\ old.v.value.some =>
              tr_(new, m, NoArgs)
                = Some(Retain(format_pattern(new, m, old.v.value.v, NoArgs).s))

\* C12 witness: the second resource declared m1 with another value than the
\* first; its add returned the engine error and tr through the handle gives
\* the first value.
C12_Witness ==
  \E p \in Procs :
    /\ AddReturned(p, "FluentError")
    /\ "m1" \in Collisions(p)
    /\ ret[p].res = TextTwo
    /\ get_message(ret[p].before.v, "m1") = Some(TextA[1])
    /\ ret[p].lang \in Range(languages[p])
    /\ tr(p, bundles, "m1", NoArgs) = [kind |-> "Ok", text |-> <<"a">>]

\* The message takes no arguments: its value, if any, has no variable and
\* no reference to another message.
TakesNoArgs(msg) ==
  msg.value.some => \A i \in DOMAIN msg.value.v : msg.value.v[i].t \in {"text", "str"}

\* C13: whenever add_from_text has returned Ok for a language of the list,
\* tr without args gives, for every id the resource declares that takes no
\* arguments, Ok with a text that is not empty.
C13_RoundTrip ==
  \A p \in Procs :
    (AddReturned(p, "Ok") /\ ret[p].lang \in Range(languages[p])) =>
      \A i \in DOMAIN ret[p].res :
        (ret[p].res[i].kind = "message" /\ TakesNoArgs(ret[p].res[i])) =>
          LET r == tr(p, bundles, ret[p].res[i].id, NoArgs)
          IN r.kind = "Ok" /\ r.text # <<>>

\* The number of errors the engine pushes when it renders message id of the
\* bundle.
EngineErrors(bundle, id, args) ==
  format_pattern(bundle, id, get_message(bundle, id).v.value.v, args).e

\* C14: whenever tr(m) has returned and the first bundle in list order that
\* has a value for m renders it with errors, the result is Ok, not an error
\* of any kind, it was decided at that bundle's position, and its text is
\* that bundle's render.
C14_WarningsDoNotRedirect ==
  \A p \in Procs : TrReturned(p) =>
    LET L == languages[p]
        m == ret[p].msgid
        Def(bundle) == Renders(bundle, m)
        D == Positions(L, bundles, Def)
    IN (D # {} /\ EngineErrors(bundles[L[Min(D)]], m, ret[p].args) > 0) =>
         /\ ret[p].kind = "Ok"
         /\ ret[p].at = Min(D)
         /\ ret[p].out.text = Retain(EngineText(bundles[L[Min(D)]], m, ret[p].args))

\* C14 witness: the first language rendered m1 with an error (its variable
\* had no argument), the second language has m1 without any error, and tr
\* returned the first language's text.
C14_Witness ==
  /\ TrReturned("p1") /\ ret["p1"].kind = "Ok" /\ ret["p1"].at = 1
  /\ Len(languages["p1"]) = 2
  /\ \A i \in {1, 2} : languages["p1"][i] \in DOMAIN bundles
                        /\ Renders(bundles[languages["p1"][i]], ret["p1"].msgid)
  /\ EngineErrors(bundles[languages["p1"][1]], ret["p1"].msgid, ret["p1"].args) > 0
  /\ EngineErrors(bundles[languages["p1"][2]], ret["p1"].msgid, ret["p1"].args) = 0
  /\ ret["p1"].out.text = <<"{", "$", "x", "}", "b">>

\* The last position of the priority list a returned tr call looked up
\* (ret.i is one past the end when the list was exhausted).
LastVisited(p) ==
  IF ret[p].i > Len(languages[p]) THEN Len(languages[p]) ELSE ret[p].i

\* C15: whenever tr(m) has returned and some language of the list has a
\* bundle with an entry for m, whatever its form, the search looked up no
\* language after the earliest such language: that bundle decided, and no
\* later language was consulted.
C15_AnyDefinitionDecides ==
  \A p \in Procs : TrReturned(p) =>
    LET m == ret[p].msgid
        Def(bundle) == HasEntry(bundle, m)
        D == Positions(languages[p], bundles, Def)
    IN D # {} => LastVisited(p) <= Min(D)

\* The call of p found nothing at the positions before k.
MissedBefore(p, k) ==
  \A j \in 1..(k - 1) :
    ~TrVisit(bundles, languages[p][j], frame[p].msgid, frame[p].args).some

\* Where a tr call is while it searches, and where it is when it has ended.
TrSearchInv(p) ==
  LET f == frame[p]
      n == Len(languages[p])
  IN /\ pc[p] = "tr_iter" =>
          /\ f.state = "Searching" /\ ~f.result.some
          /\ f.i \in 1..(n + 1)
          /\ MissedBefore(p, f.i)
     /\ pc[p] = "tr_done" =>
          \/ /\ f.state = "Found"
             /\ f.i \in 1..n /\ f.at = f.i
             /\ f.result.some
             /\ f.result = TrVisit(bundles, languages[p][f.i], f.msgid, f.args)
             /\ MissedBefore(p, f.i)
          \/ /\ f.state = "Exhausted"
             /\ f.i = n + 1 /\ ~f.result.some
             /\ MissedBefore(p, n + 1)

\* How a tr call moves: while it searches it stays, goes to the next
\* position, or ends where it is; once ended it only returns.
TrSearchStep(p) ==
  /\ pc[p] = "tr_iter" =>
       \/ pc'[p] = "tr_iter" /\ frame'[p] = frame[p]
       \/ pc'[p] = "tr_iter" /\ frame'[p].i = frame[p].i + 1
       \/ pc'[p] = "tr_done" /\ frame'[p].i = frame[p].i
  /\ pc[p] = "tr_done" =>
       \/ pc'[p] = "tr_done" /\ frame'[p] = frame[p]
       \/ pc'[p] = "idle" /\ ret'[p].op = "tr" /\ ret'[p].i = frame[p].i

\* C16: a tr call visits the positions of the priority list in order, each
\* at most once, every position before the current one having given
\* nothing; it ends at the first position that gives a text (Found) or one
\* past the end of the list (Exhausted), never both, and looks up nothing
\* after that; so it visits at most Len(list) languages.
C16_SearchStateMachine ==
  /\ [](\A p \in Procs : TrSearchInv(p))
  /\ [][\A p \in Procs : TrSearchStep(p)]_vars

\* C16 witness: the search has ended Found at the second position of a list
\* of two different languages.
C16_Witness ==
  /\ pc["p1"] = "tr_done" /\ frame["p1"].state = "Found" /\ frame["p1"].i = 2
  /\ languages["p1"][1] # languages["p1"][2]
  /\ languages["p1"][1] \in DOMAIN bundles

\* p's add was the first for its language and add_resource failed.
FirstAddFailed(p) == AddReturned(p, "FluentError") /\ ~ret[p].before.some

\* C17 as claimed: whenever the first add for a language has returned the
\* engine error, the store has an entry for the language, with no messages.
C17_EmptyBundleLeft ==
  \A p \in Procs : FirstAddFailed(p) =>
    /\ ret[p].lang \in DOMAIN bundles
    /\ DOMAIN bundles[ret[p].lang].entries = {}

\* C17 as amended: whenever the first add for a language has returned the
\* engine error, the store has no entry for the language.
C17_NoBundleLeft ==
  \A p \in Procs : FirstAddFailed(p) => ret[p].lang \notin DOMAIN bundles

\* C17 witness: the first add for a language of the list failed in
\* add_resource on a text that declares m2 twice, and tr(m2) finds nothing.
C17_Witness ==
  /\ FirstAddFailed("p1")
  /\ ret["p1"].res = TextDup
  /\ ret["p1"].lang \in Range(languages["p1"])
  /\ tr("p1", bundles, "m2", NoArgs).kind = "NoMatchingMessage"

\* q is inside add_resource, merging its resource into a bundle.
Merging(q) == HoldsWrite(q) /\ frame[q].pos <= Len(frame[q].res)

\* p has parsed its text and waits for the write guard while q merges a
\* resource for another language.
WaitsForOtherLanguage(p, q) ==
  /\ p # q
  /\ pc[p] = "add_lock"
  /\ Merging(q)
  /\ frame[q].lang # frame[p].lang

\* C18 as claimed: no add waits for the write guard while another add is
\* merging a resource into the bundle of a different language.
C18_DifferentLanguagesDoNotWait ==
  \A p, q \in Procs : ~WaitsForOtherLanguage(p, q)

\* C18 as amended: an add that waits for the write guard stays waiting in
\* every step taken while another process holds a guard of the store, the
\* language of either call notwithstanding.
C18_AddsSerialized ==
  [][\A p \in Procs :
       (pc[p] = "add_lock" /\ \E q \in Procs \ {p} : HoldsWrite(q) \/ HoldsRead(q))
         => pc'[p] = "add_lock"]_vars

\* C18 witness: p2 waits with a resource for one language while p1 is
\* halfway through add_resource for the other language.
C18_Witness ==
  /\ WaitsForOtherLanguage("p2", "p1")
  /\ frame["p1"].pos = 2

\* The bundle new holds all that the bundle old held: its resources at the
\* same positions, its registrations unchanged.
BundleExtends(old, new) ==
  /\ Len(old.resources) <= Len(new.resources)
  /\ \A i \in DOMAIN old.resources : new.resources[i] = old.resources[i]
  /\ \A m \in DOMAIN old.entries :
       m \in DOMAIN new.entries /\ new.entries[m] = old.entries[m]

\* One step of the store: no key leaves, every bundle keeps what it held, a
\* new key is the language of an add that returns Ok in this step, and any
\* change is made by a process inside the write section of add_from_text,
\* to the bundle of its language only.
StoreStep ==
  /\ DOMAIN bundles \subseteq DOMAIN bundles'
  /\ \A l \in DOMAIN bundles : BundleExtends(bundles[l], bundles'[l])
  /\ \A l \in DOMAIN bundles' \ DOMAIN bundles :
       \E p \in Procs : /\ HoldsWrite(p) /\ frame[p].lang = l
                        /\ pc'[p] = "idle" /\ ret'[p].kind = "Ok"
  /\ bundles' # bundles =>
       \E p \in Procs : /\ HoldsWrite(p)
                        /\ \A l \in Langs \ {frame[p].lang} :
                             Bundle(bundles', l) = Bundle(bundles, l)

\* C19: the store of a new translator is empty, and every step keeps the
\* keys and the contents the store has; keys are added only by an add for
\* that language, and nothing but add_from_text changes the store.
C19_StoreLifecycle == bundles = EmptyMap /\ [][StoreStep]_vars

\* C19 witness: both languages have a bundle, one add came on top of an
\* earlier one, and a tr call has returned since.
C19_Witness ==
  /\ DOMAIN bundles = Langs
  /\ \E l \in Langs : Len(bundles[l].resources) = 2
  /\ \E p \in Procs : TrReturned(p)

\* A process holds the write guard exactly inside the write section of
\* add_from_text and a read guard exactly inside the read section of tr: a
\* guard is taken once per call, by a process that holds none, and no
\* process that is outside a call, or waiting for the lock, holds one.
GuardsMatchCalls ==
  \A p \in Procs :
    /\ p \in writers <=> HoldsWrite(p)
    /\ p \in readers <=> HoldsRead(p)

\* C20: guards are held only inside the sections that took them, and under
\* a fair lock every call that has begun returns.
C20_CallsReturn ==
  /\ []GuardsMatchCalls
  /\ \A p \in Procs : (pc[p] # "idle") ~> (pc[p] = "idle")

\* C20 witness: a call waits for the write guard while the other process
\* holds a read guard, after an add has gone through the lock and returned.
C20_Witness ==
  /\ pc["p1"] = "add_lock" /\ HoldsRead("p2")
  /\ added # {}

====
